---------------------------- MODULE Spec2Model ----------------------------
(***************************************************************************)
(* A model of mexFunction of GCRS2ITRS.c: the conversion of a batch of     *)
(* position (3-row) or position-and-velocity (6-row) vectors from the GCRS *)
(* to the ITRS.                                                            *)
(*                                                                         *)
(* One call is a run of the state machine: the argument checks, the        *)
(* resolution of the Earth orientation parameters (the getEOP lookup and   *)
(* the caller's overrides), the composition of the rotation matrices and   *)
(* the loop over the vectors of the batch, one action each.                *)
(*                                                                         *)
(* Numbers.  The C code computes in double.  The model computes in the     *)
(* integers: angles are counted in quarter turns, so that the rotation     *)
(* matrices of the SOFA library are exact (their entries are -1, 0, 1),    *)
(* and the Earth's rotation rate is counted in units of 1/86400 of the     *)
(* nominal rate, so that the length-of-day scaling is exact.  The SOFA     *)
(* routines that evaluate series (iauXys06a, iauSp00, iauEra00) and the    *)
(* trigonometric part of iauC2ixys are replaced by fixed functions of      *)
(* their arguments into that domain; the matrix and vector routines        *)
(* (iauRx, iauRy, iauRz, iauRxr, iauRxp, iauPxp, iauPmp, iauC2tcio,        *)
(* iauPom00) are as SOFA defines them.                                     *)
(*                                                                         *)
(* Arrays.  A Matlab array is a record [M, N, d]: its row count, its       *)
(* column count and its data in column-major order.  All arrays are real   *)
(* double and every scalar argument that is not empty is a scalar, so the  *)
(* type checks of MexValidation.h (checkRealDoubleArray,                   *)
(* getDoubleFromMatlab) pass.                                              *)
(***************************************************************************)
EXTENDS Integers, Sequences, FiniteSets, TLC

VARIABLES
    prhs,          \* the right-hand side arguments; nrhs is their number
    nlhs,          \* the number of outputs the caller asks for
    plhs,          \* the outputs assigned so far
    tttaiRet,      \* <<the status iauTttai returns for the call's epoch>>
    taiutcRet,     \* <<the status iauTaiutc returns for the call's epoch>>
    eopRet,        \* <<the five arrays getEOP returns for the call's epoch>>
    pc,            \* the place of the call in mexFunction
    err,           \* the message mexErrMsgTxt raised, or NoError
    warnings,      \* the messages mexWarnMsgTxt raised, in order
    log,           \* the calls made to SOFA, getEOP and Constants, in order
    numRow, numVec,
    TT1, TT2, UT11, UT12,
    dX, dY, xp, yp, deltaT, LOD,
    GCRS2ITRS, GCRS2TIRS, rpom, Omega,
    retData,       \* the data of retMat, column-major
    curVec,
    prev           \* the record of the session's previous call, or NoCall

vars == <<prhs, nlhs, plhs, tttaiRet, taiutcRet, eopRet, pc, err, warnings,
          log, numRow, numVec, TT1, TT2, UT11, UT12, dX, dY, xp, yp, deltaT,
          LOD, GCRS2ITRS, GCRS2TIRS, rpom, Omega, retData, curVec, prev>>

-----------------------------------------------------------------------------
(* Bounds of the model. *)

\* The largest number of vectors (columns) in a batch.
MaxVec == 2
\* The largest number of outputs a caller asks for (one past the maximum).
MaxLhs == 3
\* The largest number of arguments a caller passes (one past the maximum).
MaxRhs == 8
\* Epochs (TT1) range over 0..MaxEpoch.
MaxEpoch == 1

(* Program constants. *)

\* 86400.0, the number of seconds in a TT day.
SecondsPerDay == 86400
\* Constants.IERSMeanEarthRotationRate, in units of 1/86400 of itself.
IERSMeanEarthRotationRate == 86400

-----------------------------------------------------------------------------
(* Values that stand for the absence of a value. *)

\* A local not yet assigned, an output not yet assigned, no previous call, a
\* collaborator not yet asked: the empty sequence.  No error: its own string.
Undef == <<>>
NoOutput == <<>>
NoCall == <<>>
NotAsked == <<>>
NoError == "none"

\* The messages of the mexErrMsgTxt calls.
ErrInputs == "Wrong number of inputs"
ErrOutputs == "Wrong number of outputs."
ErrDim == "The input vector has a bad dimensionality."
ErrTAI == "An error occurred computing TAI."
ErrDate == "Unacceptable date entered"
ErrEOP == "Error using the getEOP function."
ErrXpyp == "The celestial pole offsets have the wrong dimensionality."
ErrDXdY == "The polar motion coordinates have the wrong dimensionality."
WarnDate == "Dubious Date entered."

-----------------------------------------------------------------------------
(* Matlab arrays. *)

Mat(m, n, d) == [M |-> m, N |-> n, d |-> d]
Scalar(v) == Mat(1, 1, <<v>>)
EmptyMat == Mat(0, 0, <<>>)
mxGetM(a) == a.M
mxGetN(a) == a.N
mxIsEmpty(a) == a.M * a.N = 0
mxGetData(a) == a.d
getDoubleFromMatlab(a) == a.d[1]
nrhs == Len(prhs)

-----------------------------------------------------------------------------
(* The vector and matrix routines of SOFA, on integers. *)

Idx3 == 1..3

\* cos and sin of k quarter turns.
Cos4(k) == <<1, 0, -1, 0>>[(k % 4) + 1]
Sin4(k) == <<0, 1, 0, -1>>[(k % 4) + 1]

\* r * p
iauRxp(r, p) ==
    LET w(i) == r[i][1] * p[1] + r[i][2] * p[2] + r[i][3] * p[3]
    IN  <<w(1), w(2), w(3)>>

\* a x b
iauPxp(a, b) ==
    <<a[2] * b[3] - a[3] * b[2],
      a[3] * b[1] - a[1] * b[3],
      a[1] * b[2] - a[2] * b[1]>>

\* a - b
iauPmp(a, b) == <<a[1] - b[1], a[2] - b[2], a[3] - b[3]>>

\* a * b
iauRxr(a, b) ==
    LET w(i, j) == a[i][1] * b[1][j] + a[i][2] * b[2][j] + a[i][3] * b[3][j]
    IN  <<<<w(1, 1), w(1, 2), w(1, 3)>>,
          <<w(2, 1), w(2, 2), w(2, 3)>>,
          <<w(3, 1), w(3, 2), w(3, 3)>>>>

rident == <<<<1, 0, 0>>, <<0, 1, 0>>, <<0, 0, 1>>>>

\* The rotations about the x, y and z axes, applied to r.
iauRx(phi, r) ==
    iauRxr(<<<<1, 0, 0>>,
             <<0, Cos4(phi), Sin4(phi)>>,
             <<0, -Sin4(phi), Cos4(phi)>>>>, r)
iauRy(theta, r) ==
    iauRxr(<<<<Cos4(theta), 0, -Sin4(theta)>>,
             <<0, 1, 0>>,
             <<Sin4(theta), 0, Cos4(theta)>>>>, r)
iauRz(psi, r) ==
    iauRxr(<<<<Cos4(psi), Sin4(psi), 0>>,
             <<-Sin4(psi), Cos4(psi), 0>>,
             <<0, 0, 1>>>>, r)

\* The polar motion matrix: R1(-yp) R2(-xp) R3(sp).
iauPom00(xpv, ypv, sp) == iauRx(-ypv, iauRy(-xpv, iauRz(sp, rident)))

\* The celestial-to-terrestrial matrix: rpom R3(era) rc2i.
iauC2tcio(rc2i, era, rp) == iauRxr(rp, iauRz(era, rc2i))

\* The GCRS-to-CIRS matrix R3(-(e+s)) R2(d) R3(e), with e and d the
\* quarter-turn stand-ins for the angles SOFA derives from (x, y).
iauC2ixys(x, y, s) == iauRz(-(y + s), iauRy(x, iauRz(y, rident)))

\* The stand-ins for the series SOFA evaluates at an epoch.
iauXys06a(tt1, tt2) ==
    [x |-> (tt1 + tt2) % 4, y |-> (tt1 + tt2 + 1) % 4, s |-> (tt1 + tt2) % 2]
iauSp00(tt1, tt2) == (3 * (tt1 + tt2)) % 4
iauEra00(ut11, ut12) == (ut11 + ut12) % 4

Abs(v) == IF v < 0 THEN -v ELSE v

\* UT1 = TT - deltaT, taken off the smaller part of the two-part date.
iauTtut1(tt1, tt2, dt) ==
    IF Abs(tt1) > Abs(tt2)
    THEN [ut11 |-> tt1, ut12 |-> tt2 - dt]
    ELSE [ut11 |-> tt1 - dt, ut12 |-> tt2]

-----------------------------------------------------------------------------
(* The calls the model makes: the arguments and the collaborators' replies. *)

\* The row counts of the batches: the two the function accepts and one it
\* does not.
RowCounts == {3, 4, 6}

\* The columns of the batches are the first rows of these.
BaseCols == {<<0, 0, 0, 0, 0, 0>>, <<1, 2, 3, 4, 5, 6>>}

\* The array with the columns cols (a sequence of n columns of m rows).
ColMajor(m, n, cols) ==
    Mat(m, n, [k \in 1..(m * n) |-> cols[((k - 1) \div m) + 1][((k - 1) % m) + 1]])

Batches ==
    {ColMajor(m, n, cols) :
        m \in RowCounts, n \in 0..MaxVec, cols \in [1..MaxVec -> BaseCols]}

\* What a caller passes as deltaTTUT1, xpyp, dXdY and LOD: an empty matrix,
\* well-shaped values, and for the two pairs an array of another shape.
DeltaTArgs == {EmptyMat, Scalar(2)}
XpypArgs == {EmptyMat, Mat(2, 1, <<2, 1>>), Mat(1, 2, <<1, 3>>), Mat(3, 1, <<1, 1, 1>>)}
DXdYArgs == {EmptyMat, Mat(2, 1, <<1, 2>>), Mat(1, 2, <<3, 1>>), Mat(2, 2, <<1, 1, 1, 1>>)}
LODArgs == {EmptyMat, Scalar(0), Scalar(3)}

\* The arguments a caller may pass in place k.
ArgSet(k) ==
    CASE k = 1 -> Batches
      [] k = 2 -> {Scalar(e) : e \in 0..MaxEpoch}
      [] k = 3 -> {Scalar(0)}
      [] k = 4 -> DeltaTArgs
      [] k = 5 -> XpypArgs
      [] k = 6 -> DXdYArgs
      [] k = 7 -> LODArgs
      [] OTHER -> {Scalar(0)}

\* The argument lists of n arguments.
RECURSIVE ArgLists(_)
ArgLists(n) ==
    IF n = 0 THEN {<<>>}
    ELSE {Append(a, v) : a \in ArgLists(n - 1), v \in ArgSet(n)}

\* The status of iauTttai (always 0: OK, as SOFA defines it) and the statuses
\* of iauTaiutc (1: dubious year, 0: OK, -1: unacceptable date).
TttaiStatuses == {0}
TaiutcStatuses == {1, 0, -1}

\* The replies of getEOP, [xpyp, dXdY, dUT1, deltaT, LOD]: one well formed
\* and two with an array that is not 2X1.
EOPReply(a, b) == <<a, b, Scalar(0), Scalar(1), Scalar(1)>>
EOPReplies ==
    {EOPReply(Mat(2, 1, <<1, 1>>), Mat(2, 1, <<1, 1>>)),
     EOPReply(Mat(1, 2, <<1, 1>>), Mat(2, 1, <<1, 1>>)),
     EOPReply(Mat(2, 1, <<1, 1>>), Mat(3, 1, <<1, 1, 1>>))}

\* A collaborator's reply for the call's epoch: chosen when first asked for,
\* the same when asked again for the same epoch.
Reply(known, all) == IF known = NotAsked THEN all ELSE {known[1]}

-----------------------------------------------------------------------------
(* The state at the entry of mexFunction. *)

\* The locals at entry: lines 97-113.
Entry ==
    /\ plhs = [vec |-> NoOutput, rotMat |-> NoOutput]
    /\ pc = "check"
    /\ err = NoError
    /\ warnings = <<>>
    /\ log = <<>>
    /\ numRow = 0 /\ numVec = 0
    /\ TT1 = Undef /\ TT2 = Undef /\ UT11 = Undef /\ UT12 = Undef
    /\ dX = 0 /\ dY = 0 /\ xp = 0 /\ yp = 0 /\ deltaT = 0 /\ LOD = 0
    /\ GCRS2ITRS = Undef /\ GCRS2TIRS = Undef /\ rpom = Undef /\ Omega = Undef
    /\ retData = Undef
    /\ curVec = 0

Init ==
    /\ \E n \in 2..MaxRhs : prhs \in ArgLists(n)
    /\ nlhs \in 0..MaxLhs
    /\ tttaiRet = NotAsked /\ taiutcRet = NotAsked /\ eopRet = NotAsked
    /\ prev = NoCall
    /\ Entry

-----------------------------------------------------------------------------
(* The steps of mexFunction. *)

env == <<tttaiRet, taiutcRet, eopRet>>
args == <<prhs, nlhs>>
eop == <<dX, dY, xp, yp, deltaT, LOD>>
bundle == <<GCRS2ITRS, GCRS2TIRS, rpom, Omega>>

\* A faulty variant of mexErrMsgTxt: the message is raised, the call goes on.
mexErrMsgTxtGoOn(msg) ==
    /\ err' = msg
    /\ pc' = CASE pc = "check" -> "override"
               [] pc = "tttai" -> "taiutc"
               [] pc = "taiutc" -> "geteop"
               [] pc = "geteop" -> "override"
               [] OTHER -> "compose"

\* mexErrMsgTxt: the call ends with the message, whatever follows is not run.
mexErrMsgTxt(msg) == pc' = "error" /\ err' = msg

\* A faulty variant of NeedEOP: only the argument count is looked at.
NeedEOPByCount == nrhs <= 6

\* Line 137: whether values from getEOP are needed.
NeedEOP ==
    \/ nrhs <= 6
    \/ mxIsEmpty(prhs[4])
    \/ mxIsEmpty(prhs[5])
    \/ mxIsEmpty(prhs[6])
    \/ mxIsEmpty(prhs[7])

\* Lines 115-137: the argument counts, the batch's dimensions, the epoch.
CheckArgs ==
    /\ pc = "check"
    /\ IF nrhs < 3 \/ nrhs > 7
       THEN /\ mexErrMsgTxt(ErrInputs)
            /\ UNCHANGED <<numRow, numVec, TT1, TT2>>
       ELSE IF nlhs > 2
       THEN /\ mexErrMsgTxt(ErrOutputs)
            /\ UNCHANGED <<numRow, numVec, TT1, TT2>>
       ELSE /\ numRow' = mxGetM(prhs[1])
            /\ numVec' = mxGetN(prhs[1])
            /\ IF ~(numRow' = 3 \/ numRow' = 6)
               THEN /\ mexErrMsgTxt(ErrDim)
                    /\ UNCHANGED <<TT1, TT2>>
               ELSE /\ TT1' = getDoubleFromMatlab(prhs[2])
                    /\ TT2' = getDoubleFromMatlab(prhs[3])
                    /\ pc' = IF NeedEOP THEN "tttai" ELSE "override"
                    /\ err' = err
    /\ UNCHANGED <<args, plhs, env, warnings, log, UT11, UT12, eop, bundle,
                   retData, curVec, prev>>

\* Lines 146-149: TT to TAI.
Tttai ==
    /\ pc = "tttai"
    /\ \E retVal \in Reply(tttaiRet, TttaiStatuses) :
         /\ tttaiRet' = <<retVal>>
         /\ log' = Append(log, "iauTttai")
         /\ IF retVal # 0
            THEN mexErrMsgTxt(ErrTAI)
            ELSE pc' = "taiutc" /\ err' = err
    /\ UNCHANGED <<args, plhs, taiutcRet, eopRet, warnings, numRow, numVec,
                   TT1, TT2, UT11, UT12, eop, bundle, retData, curVec, prev>>

\* A faulty variant of DateSwitch: the unacceptable date only warns.
DateSwitchNoAbort(retVal) ==
    CASE retVal = 1 -> "warn"
      [] retVal = -1 -> "warn"
      [] OTHER -> "go on"

\* Lines 151-160: what the switch does with the status of iauTaiutc.
DateSwitch(retVal) ==
    CASE retVal = 1 -> "warn"
      [] retVal = -1 -> "error"
      [] OTHER -> "go on"

\* Lines 150-160: TAI to UTC, with the warning or the error of its status.
Taiutc ==
    /\ pc = "taiutc"
    /\ \E retVal \in Reply(taiutcRet, TaiutcStatuses) :
         /\ taiutcRet' = <<retVal>>
         /\ log' = Append(log, "iauTaiutc")
         /\ CASE DateSwitch(retVal) = "warn" ->
                   /\ warnings' = Append(warnings, WarnDate)
                   /\ pc' = "geteop" /\ err' = err
              [] DateSwitch(retVal) = "error" ->
                   /\ mexErrMsgTxt(ErrDate)
                   /\ warnings' = warnings
              [] OTHER ->
                   /\ pc' = "geteop" /\ err' = err
                   /\ warnings' = warnings
    /\ UNCHANGED <<args, plhs, tttaiRet, eopRet, numRow, numVec,
                   TT1, TT2, UT11, UT12, eop, bundle, retData, curVec, prev>>

\* Line 172: whether getEOP's xpyp or dXdY is not 2X1.
BadEOPShape(retVals) ==
    \/ mxGetM(retVals[1]) # 2
    \/ mxGetN(retVals[1]) # 1
    \/ mxGetM(retVals[2]) # 2
    \/ mxGetN(retVals[2]) # 1

\* A faulty variant of EOPValues: deltaT read from the third array, dUT1.
EOPValuesShifted(retVals) ==
    [xp |-> mxGetData(retVals[1])[1],
     yp |-> mxGetData(retVals[1])[2],
     dX |-> mxGetData(retVals[2])[1],
     dY |-> mxGetData(retVals[2])[2],
     deltaT |-> getDoubleFromMatlab(retVals[3]),
     LOD |-> getDoubleFromMatlab(retVals[5])]

\* Lines 182-191: the six parameters in getEOP's reply.
EOPValues(retVals) ==
    [xp |-> mxGetData(retVals[1])[1],
     yp |-> mxGetData(retVals[1])[2],
     dX |-> mxGetData(retVals[2])[1],
     dY |-> mxGetData(retVals[2])[2],
     deltaT |-> getDoubleFromMatlab(retVals[4]),
     LOD |-> getDoubleFromMatlab(retVals[5])]

\* Lines 162-198: the getEOP lookup; all six parameters are taken from it.
GetEOP ==
    /\ pc = "geteop"
    /\ \E retVals \in Reply(eopRet, EOPReplies) :
         /\ eopRet' = <<retVals>>
         /\ log' = Append(log, "getEOP")
         /\ IF BadEOPShape(retVals)
            THEN /\ mexErrMsgTxt(ErrEOP)
                 /\ UNCHANGED eop
            ELSE /\ xp' = EOPValues(retVals).xp
                 /\ yp' = EOPValues(retVals).yp
                 /\ dX' = EOPValues(retVals).dX
                 /\ dY' = EOPValues(retVals).dY
                 /\ deltaT' = EOPValues(retVals).deltaT
                 /\ LOD' = EOPValues(retVals).LOD
                 /\ pc' = "override" /\ err' = err
    /\ UNCHANGED <<args, plhs, tttaiRet, taiutcRet, warnings, numRow, numVec,
                   TT1, TT2, UT11, UT12, bundle, retData, curVec, prev>>

\* A faulty variant of IsPair: one dimension of 2 is enough.
IsPairEitherDim(a) == mxGetM(a) = 2 \/ mxGetN(a) = 2

\* Lines 216 and 234: a pair is 2X1 or 1X2.
IsPair(a) ==
    \/ (mxGetM(a) = 2 /\ mxGetN(a) = 1)
    \/ (mxGetM(a) = 1 /\ mxGetN(a) = 2)

\* A faulty variant of Given: the argument count compared one too high.
GivenOffByOne(k) == nrhs > k /\ ~mxIsEmpty(prhs[k])

\* Lines 201, 209, 227, 246: argument k is given and is not empty.
Given(k) == nrhs > k - 1 /\ ~mxIsEmpty(prhs[k])

\* Lines 200-248: the caller's values replace those of getEOP, one group at a
\* time; UT1 is computed from deltaT between the first and the second.
ApplyOverrides ==
    /\ pc = "override"
    /\ deltaT' = IF Given(4) THEN getDoubleFromMatlab(prhs[4]) ELSE deltaT
    /\ UT11' = iauTtut1(TT1, TT2, deltaT').ut11
    /\ UT12' = iauTtut1(TT1, TT2, deltaT').ut12
    /\ log' = Append(log, "iauTtut1")
    /\ IF Given(5) /\ ~IsPair(prhs[5])
       THEN /\ mexErrMsgTxt(ErrXpyp)
            /\ UNCHANGED <<xp, yp, dX, dY, LOD>>
       ELSE /\ xp' = IF Given(5) THEN mxGetData(prhs[5])[1] ELSE xp
            /\ yp' = IF Given(5) THEN mxGetData(prhs[5])[2] ELSE yp
            /\ IF Given(6) /\ ~IsPair(prhs[6])
               THEN /\ mexErrMsgTxt(ErrDXdY)
                    /\ UNCHANGED <<dX, dY, LOD>>
               ELSE /\ dX' = IF Given(6) THEN mxGetData(prhs[6])[1] ELSE dX
                    /\ dY' = IF Given(6) THEN mxGetData(prhs[6])[2] ELSE dY
                    /\ LOD' = IF Given(7) THEN getDoubleFromMatlab(prhs[7]) ELSE LOD
                    /\ pc' = "compose" /\ err' = err
    /\ UNCHANGED <<args, plhs, env, warnings, numRow, numVec, TT1, TT2,
                   bundle, retData, curVec, prev>>

\* Lines 261-268: the GCRS-to-CIRS matrix, the pole offsets added to the CIP.
Rc2i(tt1, tt2, dx, dy) ==
    LET xys == iauXys06a(tt1, tt2)
    IN  iauC2ixys(xys.x + dx, xys.y + dy, xys.s)

\* Lines 297-299: the Earth's rotation rate, adjusted for the length of day.
\* omega * (1 - LOD/86400.0), as omega - (omega/86400) * LOD: exact, the rate
\* being a multiple of 86400 units.
AdjustedRate(lod) ==
    IERSMeanEarthRotationRate - (IERSMeanEarthRotationRate \div SecondsPerDay) * lod

\* The collaborators called in lines 261-297, in order.
ComposeCalls ==
    <<"iauXys06a", "iauC2ixys", "iauEra00", "iauSp00", "iauPom00",
      "iauC2tcio", "iauC2tcio", "getScalarMatlabClassConst">>

\* Lines 253-311: the rotation matrices and Omega, then the return matrix
\* (mxCreateDoubleMatrix zeroes it) and the loop's counter.
Compose ==
    /\ pc = "compose"
    /\ LET rc2i == Rc2i(TT1, TT2, dX, dY)
           era == iauEra00(UT11, UT12)
           sp == iauSp00(TT1, TT2)
       IN  /\ rpom' = iauPom00(xp, yp, sp)
           /\ GCRS2ITRS' = iauC2tcio(rc2i, era, rpom')
           /\ GCRS2TIRS' = iauC2tcio(rc2i, era, rident)
    /\ Omega' = <<0, 0, AdjustedRate(LOD)>>
    /\ log' = log \o ComposeCalls
    /\ retData' = [k \in 1..(numRow * numVec) |-> 0]
    /\ curVec' = 0
    /\ pc' = "loop"
    /\ UNCHANGED <<args, plhs, env, err, warnings, numRow, numVec, TT1, TT2,
                   UT11, UT12, eop, prev>>

\* The three doubles at p + off, and an array with them replaced.
Read3(p, off) == <<p[off + 1], p[off + 2], p[off + 3]>>
Write3(p, off, v) ==
    [k \in DOMAIN p |-> IF k \in (off + 1)..(off + 3) THEN v[k - off] ELSE p[k]]

\* A faulty variant of VelocityITRS: the cross product taken the other way round.
VelocityITRSSwapped(xVec, off) ==
    LET posGCRS == Read3(xVec, off)
        velGCRS == Read3(xVec, off + 3)
        velTIRS == iauRxp(GCRS2TIRS, velGCRS)
        posTIRS == iauRxp(GCRS2TIRS, posGCRS)
        rotVel == iauPxp(posTIRS, Omega)
    IN  iauRxp(rpom, iauPmp(velTIRS, rotVel))

\* Lines 317-341: the velocity at xVec + off + 3, in the ITRS.
VelocityITRS(xVec, off) ==
    LET posGCRS == Read3(xVec, off)
        velGCRS == Read3(xVec, off + 3)
        velTIRS == iauRxp(GCRS2TIRS, velGCRS)
        posTIRS == iauRxp(GCRS2TIRS, posGCRS)
        rotVel == iauPxp(Omega, posTIRS)
    IN  iauRxp(rpom, iauPmp(velTIRS, rotVel))

\* A faulty variant of VecOffset: the vectors taken to be 3 rows apart.
VecOffsetStride3(cv) == 3 * cv

\* Lines 313-321: where the vector cv starts in xVec and in retData.
VecOffset(cv) == numRow * cv

\* The SOFA routines called for a position, and for a velocity, in order.
PositionCalls == <<"iauRxp">>
VelocityCalls == <<"iauRxp", "iauRxp", "iauPxp", "iauPmp", "iauRxp">>

\* Lines 311-343: one turn of the loop, for the vector curVec.
TransformVec ==
    /\ pc = "loop"
    /\ curVec < numVec
    /\ LET xVec == mxGetData(prhs[1])
           off == VecOffset(curVec)
           withPos == Write3(retData, off, iauRxp(GCRS2ITRS, Read3(xVec, off)))
       IN  IF numRow > 3
           THEN /\ retData' = Write3(withPos, off + 3, VelocityITRS(xVec, off))
                /\ log' = log \o PositionCalls \o VelocityCalls
           ELSE /\ retData' = withPos
                /\ log' = log \o PositionCalls
    /\ curVec' = curVec + 1
    /\ UNCHANGED <<args, plhs, env, pc, err, warnings, numRow, numVec,
                   TT1, TT2, UT11, UT12, eop, bundle, prev>>

\* A faulty variant of RotMatOut: the matrix written row-major.
RotMatOutRowMajor ==
    Mat(3, 3, [k \in 1..9 |-> GCRS2ITRS[((k - 1) \div 3) + 1][((k - 1) % 3) + 1]])

\* Lines 355-359: the rotation matrix, column-major in the second output.
RotMatOut == Mat(3, 3, [k \in 1..9 |-> GCRS2ITRS[((k - 1) % 3) + 1][((k - 1) \div 3) + 1]])

\* Lines 345-360: the loop is over; the outputs are assigned.
Finish ==
    /\ pc = "loop"
    /\ ~(curVec < numVec)
    /\ plhs' = [vec |-> Mat(numRow, numVec, retData),
                rotMat |-> IF nlhs > 1 THEN RotMatOut ELSE NoOutput]
    /\ pc' = "done"
    /\ UNCHANGED <<args, env, err, warnings, log, numRow, numVec, TT1, TT2,
                   UT11, UT12, eop, bundle, retData, curVec, prev>>

Next ==
    \/ CheckArgs
    \/ Tttai
    \/ Taiutc
    \/ GetEOP
    \/ ApplyOverrides
    \/ Compose
    \/ TransformVec
    \/ Finish

Spec == Init /\ [][Next]_vars

-----------------------------------------------------------------------------
(* A session of two calls for the same batch and epoch: when the first is   *)
(* over, mexFunction is entered again with other Earth orientation          *)
(* arguments.  The collaborators answer the second call as they answered    *)
(* the first, the epoch being the same.                                     *)

\* mexFunction is entered again: the locals are as at the first entry.
Enter ==
    /\ plhs' = [vec |-> NoOutput, rotMat |-> NoOutput]
    /\ pc' = "check"
    /\ err' = NoError
    /\ warnings' = <<>>
    /\ log' = <<>>
    /\ numRow' = 0 /\ numVec' = 0
    /\ TT1' = Undef /\ TT2' = Undef /\ UT11' = Undef /\ UT12' = Undef
    /\ dX' = 0 /\ dY' = 0 /\ xp' = 0 /\ yp' = 0 /\ deltaT' = 0 /\ LOD' = 0
    /\ GCRS2ITRS' = Undef /\ GCRS2TIRS' = Undef /\ rpom' = Undef /\ Omega' = Undef
    /\ retData' = Undef
    /\ curVec' = 0

\* What is kept of a call that is over.
CallRecord(kind) ==
    [kind |-> kind, prhs |-> prhs, pc |-> pc, err |-> err,
     warnings |-> warnings, plhs |-> plhs, GCRS2ITRS |-> GCRS2ITRS,
     GCRS2TIRS |-> GCRS2TIRS, rpom |-> rpom, Omega |-> Omega]

\* After a call for a position-only batch: the first six arguments again,
\* with another LOD argument or with none.
CallAgainOtherLOD ==
    /\ prev = NoCall
    /\ pc = "done" \/ pc = "error"
    /\ nrhs = 6 \/ nrhs = 7
    /\ mxGetM(prhs[1]) = 3
    /\ \E tail \in {<<>>} \cup {<<a>> : a \in LODArgs} :
         /\ SubSeq(prhs, 1, 6) \o tail # prhs
         /\ prhs' = SubSeq(prhs, 1, 6) \o tail
    /\ prev' = CallRecord("LOD")
    /\ Enter
    /\ UNCHANGED <<nlhs, env>>

\* After a call with all four groups supplied: the first three arguments
\* again, getEOP now holding the numbers the first call was given.
CallAgainViaProvider ==
    /\ prev = NoCall
    /\ pc = "done"
    /\ nrhs = 7 /\ ~NeedEOP
    /\ prhs' = SubSeq(prhs, 1, 3)
    /\ eopRet' = <<<<Mat(2, 1, <<xp, yp>>), Mat(2, 1, <<dX, dY>>), Scalar(0),
                     Scalar(deltaT), Scalar(LOD)>>>>
    /\ prev' = CallRecord("provider")
    /\ Enter
    /\ UNCHANGED <<nlhs, tttaiRet, taiutcRet>>

\* The sessions start with a call whose argument counts are accepted.
InitPair == Init /\ nrhs >= 3 /\ nrhs <= 7 /\ nlhs <= 2

NextPair ==
    \/ Next
    \/ CallAgainOtherLOD
    \/ CallAgainViaProvider

SpecPair == InitPair /\ [][NextPair]_vars

-----------------------------------------------------------------------------
(* What the properties below are stated with: arrays are read by row and    *)
(* column, and the products are written out.                                *)

\* Element (r, c) of a Matlab array.
Elem(a, r, c) == a.d[(c - 1) * a.M + r]

\* Rows r+1..r+3 of column c of a Matlab array.
Rows3(a, r, c) == <<Elem(a, r + 1, c), Elem(a, r + 2, c), Elem(a, r + 3, c)>>

\* The product of a 3X3 matrix and a 3-vector, and the cross product and the
\* difference of two 3-vectors.
MatVec(R, v) ==
    <<R[1][1] * v[1] + R[1][2] * v[2] + R[1][3] * v[3],
      R[2][1] * v[1] + R[2][2] * v[2] + R[2][3] * v[3],
      R[3][1] * v[1] + R[3][2] * v[2] + R[3][3] * v[3]>>
Cross(a, b) ==
    <<a[2] * b[3] - a[3] * b[2], a[3] * b[1] - a[1] * b[3], a[1] * b[2] - a[2] * b[1]>>
Minus(a, b) == <<a[1] - b[1], a[2] - b[2], a[3] - b[3]>>

\* How often a routine was called.
Count(name) == Cardinality({k \in 1..Len(log) : log[k] = name})

\* The batch the caller passed, and the batch returned.
InBatch == prhs[1]
OutBatch == plhs.vec

\* Argument k is present and not empty.
Supplied(k) == Len(prhs) >= k /\ prhs[k].M * prhs[k].N > 0

\* The call is over.
Finished == pc = "done" \/ pc = "error"

-----------------------------------------------------------------------------
\* C1: in every successful call, rows 1-3 of every output column are the
\* product of GCRS2ITRS and rows 1-3 of the same input column; the second
\* output, when asked for, has GCRS2ITRS[i][j] as its element (i, j); and
\* for a 3-row batch the velocity branch has not run (one iauRxp per vector,
\* no cross product, no difference).
C1_PositionRotation ==
    pc = "done" =>
        /\ OutBatch # NoOutput
        /\ \A c \in 1..InBatch.N :
               Rows3(OutBatch, 0, c) = MatVec(GCRS2ITRS, Rows3(InBatch, 0, c))
        /\ nlhs > 1 =>
               /\ plhs.rotMat # NoOutput
               /\ \A i \in 1..3 : \A j \in 1..3 :
                      Elem(plhs.rotMat, i, j) = GCRS2ITRS[i][j]
        /\ InBatch.M = 3 =>
               /\ Count("iauPxp") = 0
               /\ Count("iauPmp") = 0
               /\ Count("iauRxp") = InBatch.N

\* A successful call on a 6-row batch of two vectors, the second not zero,
\* whose caller asked for the rotation matrix.
C1_Witness ==
    /\ pc = "done"
    /\ nlhs = 2
    /\ InBatch.M = 6 /\ InBatch.N = 2
    /\ Rows3(OutBatch, 0, 2) # <<0, 0, 0>>
    /\ plhs.rotMat # NoOutput

\* The rate the claim C2 names: nominal * (1 - LOD/86400), the division
\* being exact.
ClaimedRate == (IERSMeanEarthRotationRate \div SecondsPerDay) * (SecondsPerDay - LOD)

\* C2: in every successful call on a 6-row batch, rows 4-6 of every output
\* column (p, v) are rpom * (GCRS2TIRS*v - Omega x (GCRS2TIRS*p)), with
\* Omega = [0, 0, w] and w the nominal rate times (1 - LOD/86400) for the
\* resolved LOD; for LOD = 0, w is the nominal rate; for p = 0 and v = 0 the
\* output velocity is 0.
C2_VelocityTransport ==
    (pc = "done" /\ InBatch.M = 6) =>
        /\ Omega = <<0, 0, ClaimedRate>>
        /\ LOD = 0 => Omega[3] = IERSMeanEarthRotationRate
        /\ \A c \in 1..InBatch.N :
               LET p == Rows3(InBatch, 0, c)
                   v == Rows3(InBatch, 3, c)
               IN  /\ Rows3(OutBatch, 3, c) =
                          MatVec(rpom, Minus(MatVec(GCRS2TIRS, v),
                                             Cross(<<0, 0, ClaimedRate>>,
                                                   MatVec(GCRS2TIRS, p))))
                   /\ (p = <<0, 0, 0>> /\ v = <<0, 0, 0>>) =>
                          Rows3(OutBatch, 3, c) = <<0, 0, 0>>

\* A successful call on a 6-row batch with a vector that is not zero and a
\* length of day that is not zero.
C2_Witness ==
    /\ pc = "done"
    /\ InBatch.M = 6 /\ InBatch.N >= 1
    /\ Rows3(InBatch, 0, 1) # <<0, 0, 0>>
    /\ LOD # 0
    /\ Rows3(OutBatch, 3, 1) # Rows3(InBatch, 3, 1)

\* The value of each parameter that C3 names: the caller's when supplied,
\* the provider's otherwise.
Provided == EOPValues(eopRet[1])
Merged ==
    [deltaT |-> IF Supplied(4) THEN prhs[4].d[1] ELSE Provided.deltaT,
     xp |-> IF Supplied(5) THEN prhs[5].d[1] ELSE Provided.xp,
     yp |-> IF Supplied(5) THEN prhs[5].d[2] ELSE Provided.yp,
     dX |-> IF Supplied(6) THEN prhs[6].d[1] ELSE Provided.dX,
     dY |-> IF Supplied(6) THEN prhs[6].d[2] ELSE Provided.dY,
     LOD |-> IF Supplied(7) THEN prhs[7].d[1] ELSE Provided.LOD]

\* C3: once the parameters are resolved, each of deltaT, (xp, yp), (dX, dY)
\* and LOD is the caller's argument when that argument is supplied and not
\* empty, and getEOP's value otherwise, whatever the other groups are; and
\* the rotation is built from exactly these values.
C3_FieldByFieldMerge ==
    (pc = "compose" \/ pc = "loop" \/ pc = "done") =>
        /\ (\E k \in 4..7 : ~Supplied(k)) => eopRet # NotAsked
        /\ deltaT = Merged.deltaT
        /\ xp = Merged.xp /\ yp = Merged.yp
        /\ dX = Merged.dX /\ dY = Merged.dY
        /\ LOD = Merged.LOD
        /\ pc # "compose" =>
               LET ut1 == iauTtut1(TT1, TT2, Merged.deltaT)
                   rc2i == Rc2i(TT1, TT2, Merged.dX, Merged.dY)
                   era == iauEra00(ut1.ut11, ut1.ut12)
                   pom == iauPom00(Merged.xp, Merged.yp, iauSp00(TT1, TT2))
               IN  /\ rpom = pom
                   /\ GCRS2ITRS = iauC2tcio(rc2i, era, pom)
                   /\ GCRS2TIRS = iauC2tcio(rc2i, era, rident)
                   /\ Omega[3] = AdjustedRate(Merged.LOD)

\* A successful call with deltaT and dXdY supplied, xpyp empty and LOD
\* omitted, the provider's values differing from the caller's.
C3_Witness ==
    /\ pc = "done"
    /\ Len(prhs) = 6
    /\ Supplied(4) /\ ~Supplied(5) /\ Supplied(6)
    /\ deltaT # Provided.deltaT
    /\ xp = Provided.xp
    /\ dX # Provided.dX
    /\ LOD = Provided.LOD

-----------------------------------------------------------------------------
\* The four groups are all supplied and not empty.
AllSupplied == \A k \in 4..7 : Supplied(k)

\* The lookup's three calls, and the calls of the frame models.
LookupCalls == <<"iauTttai", "iauTaiutc", "getEOP">>
FrameCalls ==
    {"iauXys06a", "iauC2ixys", "iauEra00", "iauSp00", "iauPom00", "iauC2tcio"}
NoFrameEval == \A k \in 1..Len(log) : log[k] \notin FrameCalls

\* The errors of the argument checks, of the shapes and of the lookup.
CountErrors == {ErrInputs, ErrOutputs}
ShapeErrors == {ErrXpyp, ErrDXdY}
LookupErrors == {ErrTAI, ErrDate, ErrEOP}

\* The call has assigned no output.
NoOutputs == plhs.vec = NoOutput /\ plhs.rotMat = NoOutput

\* C4, as amended: a call makes each of the TT-to-TAI conversion, the
\* TAI-to-UTC conversion and the getEOP lookup at most once, and none of
\* them after a frame model was evaluated; with all four groups supplied and
\* not empty it makes none of them; with a group omitted or empty, a call
\* that reaches the composition of the rotation matrices has made exactly
\* one of each, in this order, before anything else.
C4_LookupOnceBeforeCompose ==
    /\ \A k \in 1..3 : Count(LookupCalls[k]) <= 1
    /\ \A k \in 1..Len(log) :
           log[k] \in {LookupCalls[i] : i \in 1..3} =>
               \A j \in 1..k : log[j] \notin FrameCalls
    /\ AllSupplied => \A k \in 1..3 : Count(LookupCalls[k]) = 0
    /\ ((pc = "compose" \/ pc = "loop" \/ pc = "done") /\ ~AllSupplied) =>
           /\ \A k \in 1..3 : Count(LookupCalls[k]) = 1
           /\ SubSeq(log, 1, 3) = LookupCalls

\* A successful call with seven arguments, one of them empty, that made the
\* three calls of the lookup.
C4_Witness ==
    /\ pc = "done"
    /\ Len(prhs) = 7
    /\ Supplied(4) /\ Supplied(5) /\ Supplied(6) /\ ~Supplied(7)
    /\ SubSeq(log, 1, 3) = LookupCalls

\* C4 as stated, for the calls that pass the argument checks: with a group
\* omitted or empty the call makes exactly one conversion of each kind and
\* one lookup, with all four supplied none.
C4_Original ==
    (Finished /\ err \notin CountErrors /\ err # ErrDim) =>
        IF AllSupplied
        THEN \A k \in 1..3 : Count(LookupCalls[k]) = 0
        ELSE \A k \in 1..3 : Count(LookupCalls[k]) = 1

-----------------------------------------------------------------------------
\* The row count of the batch is neither 3 nor 6; argument k is not empty
\* and has not two elements.
BadRows == InBatch.M # 3 /\ InBatch.M # 6
BadPair(k) == Supplied(k) /\ prhs[k].M * prhs[k].N # 2

\* The numbers of arguments and of outputs are accepted.
ValidCounts == Len(prhs) >= 3 /\ Len(prhs) <= 7 /\ nlhs <= 2

\* C7, as amended: a call whose row count is neither 3 nor 6, or whose xpyp
\* or dXdY is not empty and not a pair, ends in an error raised before any
\* frame model is evaluated and assigns no output; for a bad row count
\* nothing at all was computed.  The error is that of the argument count
\* when the count is wrong and else that of the row count when the rows are
\* bad; else it is the error of the shape, unless the call needs the lookup
\* and the lookup fails first (TAI, unacceptable date, malformed reply),
\* before UT1 is computed.
C7_ValidationBeforeModels ==
    (Finished /\ (BadRows \/ BadPair(5) \/ BadPair(6))) =>
        /\ pc = "error"
        /\ NoFrameEval
        /\ NoOutputs
        /\ BadRows => log = <<>>
        /\ IF ~ValidCounts THEN err \in CountErrors
           ELSE IF BadRows THEN err = ErrDim
           ELSE \/ err \in ShapeErrors
                \/ /\ err \in LookupErrors
                   /\ ~AllSupplied
                   /\ Count("iauTtut1") = 0

\* A call that made the lookup and then ended in the error of xpyp's shape.
C7_Witness ==
    /\ pc = "error"
    /\ BadPair(5)
    /\ err = ErrXpyp
    /\ Count("getEOP") = 1
    /\ NoFrameEval

\* C7 as stated, for the calls with accepted counts: the error of such a
\* call is a validation error.
C7_Original ==
    (Finished /\ ValidCounts /\ (BadRows \/ BadPair(5) \/ BadPair(6))) =>
        /\ pc = "error"
        /\ err \in ShapeErrors \cup {ErrDim}
        /\ NoFrameEval
        /\ NoOutputs
        /\ BadRows => log = <<>>

-----------------------------------------------------------------------------
\* getEOP's reply is malformed.
BadReply ==
    LET r == eopRet[1]
    IN  ~(r[1].M = 2 /\ r[1].N = 1 /\ r[2].M = 2 /\ r[2].N = 1)

\* C8, as amended: when iauTaiutc reports a dubious date the call warns,
\* does not end in a date error, has made the lookup once it is past it, and
\* ends with the transformed batch whenever getEOP's reply is well formed and
\* the overrides are well shaped; when it reports an unacceptable date the
\* call ends in the date error, without a lookup and without an output.
C8_DateStatus ==
    /\ taiutcRet = <<1>> =>
           /\ warnings = <<WarnDate>>
           /\ err # ErrDate
           /\ pc # "geteop" => Count("getEOP") = 1
           /\ (Finished /\ ~BadReply /\ ~BadPair(5) /\ ~BadPair(6)) =>
                  /\ pc = "done"
                  /\ OutBatch = Mat(InBatch.M, InBatch.N, retData)
    /\ taiutcRet = <<-1>> =>
           /\ pc = "error"
           /\ err = ErrDate
           /\ Count("getEOP") = 0
           /\ NoOutputs

\* A successful call that warned of a dubious date.
C8_Witness ==
    /\ pc = "done"
    /\ taiutcRet = <<1>>
    /\ warnings = <<WarnDate>>
    /\ Count("getEOP") = 1
    /\ InBatch.N >= 1

\* C8 as stated: after a dubious date the call ends with the transformed
\* batch; after an unacceptable date it ends in the error with no lookup.
C8_Original ==
    Finished =>
        /\ taiutcRet = <<1>> =>
               /\ warnings = <<WarnDate>>
               /\ Count("getEOP") = 1
               /\ pc = "done"
               /\ OutBatch # NoOutput
        /\ taiutcRet = <<-1>> =>
               /\ pc = "error"
               /\ err = ErrDate
               /\ Count("getEOP") = 0
               /\ NoOutputs

-----------------------------------------------------------------------------
\* C9: every error ends the call before the first vector is transformed: a
\* step that raises an error leaves the call ended, with no output assigned,
\* no return matrix allocated and no vector rotated; a step taken in the loop
\* stays in the loop or ends the call with the batch assigned, and raises no
\* error.
C9_ErrorsBeforeLoop ==
    [][/\ err' # NoError =>
              /\ pc' = "error"
              /\ NoOutputs'
              /\ retData' = Undef
              /\ curVec' = 0
              /\ Count("iauRxp")' = 0
       /\ pc' = "error" => err' # NoError
       /\ pc = "loop" =>
              /\ pc' = "loop" \/ pc' = "done"
              /\ err' = NoError
       /\ pc' = "done" =>
              /\ err' = NoError
              /\ OutBatch' = Mat(numRow, numVec, retData)]_vars

\* A call ended by a malformed reply of getEOP.
C9_Witness ==
    /\ pc = "error"
    /\ err = ErrEOP
    /\ Count("getEOP") = 1
    /\ NoOutputs

-----------------------------------------------------------------------------
\* Column c of the input, and what the rotation bundle makes of it.
InCol(c) == [r \in 1..InBatch.M |-> Elem(InBatch, r, c)]
ColImage(c) ==
    LET p == Rows3(InBatch, 0, c)
        pos == MatVec(GCRS2ITRS, p)
    IN  IF InBatch.M = 6
        THEN pos \o MatVec(rpom, Minus(MatVec(GCRS2TIRS, Rows3(InBatch, 3, c)),
                                       Cross(Omega, MatVec(GCRS2TIRS, p))))
        ELSE pos

\* Column c of the return matrix.
RetCol(c) == [r \in 1..InBatch.M |-> retData[(c - 1) * InBatch.M + r]]

\* In the loop and after it: the return matrix has the input's size; the
\* columns already done are the images of the input columns of the same
\* number and the others are still zero.
LoopState ==
    /\ Len(retData) = InBatch.M * InBatch.N
    /\ \A c \in 1..InBatch.N :
           RetCol(c) = IF c <= curVec THEN ColImage(c)
                       ELSE [r \in 1..InBatch.M |-> 0]

\* At the end: the output has the input's row and column counts, and equal
\* input columns have equal output columns.
DoneState ==
    /\ curVec = InBatch.N
    /\ OutBatch.M = InBatch.M /\ OutBatch.N = InBatch.N
    /\ OutBatch.d = retData
    /\ \A c \in 1..InBatch.N : \A e \in 1..InBatch.N :
           InCol(c) = InCol(e) =>
               \A r \in 1..InBatch.M : Elem(OutBatch, r, c) = Elem(OutBatch, r, e)

\* C10: the loop has no interference between vectors: output column i is a
\* function of input column i and the bundle alone, a turn of the loop
\* writes one column and leaves the others, the bundle and the input as they
\* are, and the output has the input's size.
C10_NoInterference ==
    [][/\ (pc' = "loop" \/ pc' = "done") => LoopState'
       /\ pc' = "done" => DoneState'
       /\ pc = "loop" => UNCHANGED <<bundle, prhs, numRow, numVec>>]_vars

\* A successful call on a 6-row batch of two different vectors.
C10_Witness ==
    /\ pc = "done"
    /\ InBatch.M = 6 /\ InBatch.N = 2
    /\ InCol(1) # InCol(2)
    /\ RetCol(1) # RetCol(2)

-----------------------------------------------------------------------------
\* The session's second call, of either kind.
SecondCall(kind) == prev # NoCall /\ prev.kind = kind

\* C5: a call that is given all four groups and a call for the same batch
\* and epoch that is given none, getEOP returning the same numbers, compose
\* the same GCRS2ITRS, GCRS2TIRS, polar motion matrix and Omega.
C5_PathsAgree ==
    (SecondCall("provider") /\ (pc = "loop" \/ pc = "done")) =>
        /\ GCRS2ITRS = prev.GCRS2ITRS
        /\ GCRS2TIRS = prev.GCRS2TIRS
        /\ rpom = prev.rpom
        /\ Omega = prev.Omega

\* A second call that made the lookup and ended well, after a first that was
\* given all four groups; the polar motion is not the identity.
C5_Witness ==
    /\ SecondCall("provider")
    /\ pc = "done"
    /\ Len(prev.prhs) = 7 /\ Len(prhs) = 3
    /\ SubSeq(log, 1, 3) = LookupCalls
    /\ rpom # rident
    /\ Omega[3] # IERSMeanEarthRotationRate

\* C6 as stated, for well-shaped xpyp and dXdY: two calls for the same 3-row
\* batch and epoch that differ only in the LOD argument (two values, or one
\* supplied and one omitted or empty) end alike: the same outputs, the same
\* error, the same warnings.
C6_LODWithoutEffect ==
    (SecondCall("LOD") /\ InBatch.M = 3 /\ Finished
         /\ ~BadPair(5) /\ ~BadPair(6)) =>
        /\ pc = prev.pc
        /\ err = prev.err
        /\ warnings = prev.warnings
        /\ plhs = prev.plhs

=============================================================================
